---- MODULE Spec2Model ----
(***************************************************************************)
(* A model of the declarative widget layer of techarmour/gui (main.go):    *)
(* the frame loop of MasterWindow.Run, the depth-first tree walk of the    *)
(* containers, the style stacks that StyleSetter and the global theme push *)
(* and pop, and the retained state store that backs Counter, Timer and     *)
(* StatusDisplay.                                                          *)
(*                                                                         *)
(* The composition tree is an input of every frame.  The walk reveals it   *)
(* one node at a time: a container that starts building pushes a frame on  *)
(* callStack, a leaf is built in place, and a container that has built its *)
(* last child returns.  Every tree of depth below MaxDepth is a behaviour. *)
(***************************************************************************)
EXTENDS Integers, Sequences, FiniteSets, TLC

VARIABLES
    pc,                 \* "main" | "idle" | "walk" | "aborted"
    callStack,          \* the Build calls in progress, outermost first
    styleColors,        \* imgui: the effective colour of every colour slot
    colorStack,         \* imgui: the colour stack, entries [idx, backup]
    styleVars,          \* imgui: the effective value of every style variable
    varStack,           \* imgui: the variable stack, entries [idx, backup]
    currentThemeObject, \* main.go:54
    globalStatus,       \* main.go:51
    drawn,              \* the last draw call the backend received
    stateMap,           \* GlobalContext.stateMap, main.go:442
    time,               \* imgui.Time()
    lastBuild,          \* what the last stateful Build read, did and fired
    timerGhost,         \* per timer key: the time it has spent running, and paused
    lastTimer,          \* the last timer call: its inputs, the record before and after
    sent,               \* every message AddMessage has been called with, in order
    shown,              \* the lines the last status Build drew, in drawing order
    walkStack,          \* the Build calls in progress in a tree of descriptors
    tree,               \* the descriptors of the tree being built, by path
    visited,            \* the paths whose Build has been called, in call order
    backing,            \* the host's variables behind its input widgets
    lastInput           \* the last Build of an input widget: what it saw and fired

walkVars == <<walkStack, tree, visited>>

inputVars == <<backing, lastInput>>

vars == <<pc, callStack, styleColors, colorStack, styleVars, varStack,
          currentThemeObject, globalStatus, drawn, stateMap, time, lastBuild,
          timerGhost, lastTimer, sent, shown, walkStack, tree, visited,
          backing, lastInput>>

----------------------------------------------------------------------------
(* Bounds *)

\* The Build calls in progress at once, the frame function included.
MaxDepth == 3
\* statusState.maxMessages.  main.go:894 sets 100; the model keeps the field
\* and starts it lower, so that the log fills within the bounds.
MaxMessages == 3
\* The largest Min and Max a host declares on a counter.
MaxCounter == 2
\* The last tick of the clock.
MaxTime == 11
\* The number of messages a host logs.
MaxSent == 5
\* The last tick of the clock of a host that is followed frame by frame.
MaxFrames == 3
\* The longest child list of a container in a tree of descriptors.
MaxWidth == 2

----------------------------------------------------------------------------
(* Values *)

Nil == "nil"
EmptyMap == [x \in {} |-> Nil]

\* A nil *Theme.
NilTheme == [name |-> Nil, colors |-> EmptyMap, vars |-> EmptyMap]

ColorIDs == {"Button", "Text"}
VarIDs == {"FrameRounding"}
DefaultColor == "default"

\* The colours and values the host's StyleSetter nodes choose from.
LocalColors == {"RED", "YELLOW"}
LocalVars == {10}

PartialMaps(D, R) == UNION {[S -> R] : S \in SUBSET D}

\* The theme table of main.go, cut to the modelled slots.  Every theme
\* defines every slot, each with a value of its own.
DarkTheme ==
    [name |-> "Dark",
     colors |-> [c \in ColorIDs |-> "Dark" \o c],
     vars |-> [v \in VarIDs |-> 3]]

LightTheme ==
    [name |-> "Light",
     colors |-> [c \in ColorIDs |-> "Light" \o c],
     vars |-> [v \in VarIDs |-> 2]]

BlueTheme ==
    [name |-> "Blue",
     colors |-> [c \in ColorIDs |-> "Blue" \o c],
     vars |-> [v \in VarIDs |-> 4]]

GetAvailableThemes == {DarkTheme, LightTheme, BlueTheme}

\* The orders in which a Go range over a map with key set S may visit it.
Orderings(S) ==
    {o \in [1..Cardinality(S) -> S] : \A i, j \in DOMAIN o : i # j => o[i] # o[j]}

----------------------------------------------------------------------------
(* The backend's style stacks *)

\* imgui.PushStyleColorVec4 / PushStyleVarFloat for every key of m, in the
\* order ord: the slot's current value is saved on the stack and replaced.
RECURSIVE PushAll(_, _, _, _)
PushAll(style, stack, m, ord) ==
    IF ord = <<>> THEN [style |-> style, stack |-> stack]
    ELSE LET k == Head(ord)
         IN PushAll([style EXCEPT ![k] = m[k]],
                    Append(stack, [idx |-> k, backup |-> style[k]]),
                    m, Tail(ord))

\* imgui.PopStyleColorV / PopStyleVarV: count saved values are restored,
\* last pushed first; the backend stops at an empty stack.
RECURSIVE PopN(_, _, _)
PopN(style, stack, count) ==
    IF count <= 0 \/ stack = <<>> THEN [style |-> style, stack |-> stack]
    ELSE LET top == stack[Len(stack)]
         IN PopN([style EXCEPT ![top.idx] = top.backup],
                 SubSeq(stack, 1, Len(stack) - 1),
                 count - 1)

----------------------------------------------------------------------------
(* The tree walk *)

PlainKinds == {"Layout", "Column", "SingleWindow", "Row"}

\* A Build call in progress: the container's kind, the maps of a StyleSetter
\* (or of the theme that Run pushed), the counts its local variables hold,
\* and the depth of both stacks when the call began.
Frame(kind, colors, svars, colorCount, varCount) ==
    [kind |-> kind, colors |-> colors, vars |-> svars,
     colorCount |-> colorCount, varCount |-> varCount,
     colorDepth0 |-> Len(colorStack), varDepth0 |-> Len(varStack)]

Top == callStack[Len(callStack)]

\* A panic: nothing recovers it, no deferred call runs, the process ends
\* with every variable as the panic found it.
Panic ==
    /\ pc' = "aborted"
    /\ UNCHANGED <<callStack, styleColors, colorStack, styleVars, varStack,
                   currentThemeObject, globalStatus, drawn, stateMap, time,
                   lastBuild, timerGhost,
                   lastTimer, sent, shown, walkVars, inputVars>>

\* What a draw call hands to the backend: the item and the colour in effect
\* for the slot it is drawn with.
Draw(item, slot) == [item |-> item, color |-> styleColors[slot]]

\* StatusDisplayWidget.getState on the store st: the record under id, or a
\* fresh one that replaces whatever is there.
StatusGetState(st, id) ==
    IF id \in DOMAIN st /\ st[id].kind = "status" THEN st
    ELSE [k \in DOMAIN st \cup {id} |->
            IF k = id
            THEN [kind |-> "status", messages |-> <<>>, timestamps |-> <<>>,
                  maxMessages |-> MaxMessages]
            ELSE st[k]]

\* Mutant of AddMessage: a full log gives up its oldest message and keeps
\* the timestamp of it.
AddMessageKeepsTimestamp(st, id, message) ==
    LET s1 == StatusGetState(st, id)
        r == s1[id]
        ms == Append(r.messages, message)
        ts == Append(r.timestamps, time)
        over == Len(ms) > r.maxMessages
    IN [s1 EXCEPT ![id] =
            [r EXCEPT !.messages = IF over THEN Tail(ms) ELSE ms,
                      !.timestamps = ts]]

\* Mutant of AddMessage: a full log gives up the entry that was just added.
AddMessageEvictsNewest(st, id, message) ==
    LET s1 == StatusGetState(st, id)
        r == s1[id]
        over == Len(r.messages) + 1 > r.maxMessages
    IN [s1 EXCEPT ![id] =
            [r EXCEPT !.messages = IF over THEN @ ELSE Append(@, message),
                      !.timestamps = IF over THEN @ ELSE Append(@, time)]]

\* StatusDisplayWidget.AddMessage on the store st.
AddMessage(st, id, message) ==
    LET s1 == StatusGetState(st, id)
        r == s1[id]
        ms == Append(r.messages, message)
        ts == Append(r.timestamps, time)
        over == Len(ms) > r.maxMessages
    IN [s1 EXCEPT ![id] =
            [r EXCEPT !.messages = IF over THEN Tail(ms) ELSE ms,
                      !.timestamps = IF over THEN Tail(ts) ELSE ts]]

\* LogStatus: the store after the call.
LogStatus(st, message) ==
    IF globalStatus # Nil THEN AddMessage(st, globalStatus, message) ELSE st

\* The messages AddMessage has been called with, after LogStatus(message).
Sent(message) == IF globalStatus # Nil THEN Append(sent, message) ELSE sent

\* SetGlobalTheme: the theme object and the store after the call.
SetGlobalTheme(theme) ==
    /\ currentThemeObject' = theme
    /\ stateMap' = LogStatus(stateMap, "Theme set to: " \o theme.name)
    /\ sent' = Sent("Theme set to: " \o theme.name)

\* main before wnd.Run: it may set the initial theme.
MainSetGlobalTheme ==
    /\ pc = "main"
    /\ \E theme \in GetAvailableThemes : SetGlobalTheme(theme)
    /\ UNCHANGED <<pc, callStack, styleColors, colorStack, styleVars, varStack,
                   globalStatus, drawn, time, lastBuild, timerGhost,
                   lastTimer, shown, walkVars, inputVars>>

\* wnd.Run(loop): the backend starts calling the frame function.
StartRun ==
    /\ pc = "main"
    /\ pc' = "idle"
    /\ UNCHANGED <<callStack, styleColors, colorStack, styleVars, varStack,
                   currentThemeObject, globalStatus, drawn, stateMap, time,
                   lastBuild, timerGhost,
                   lastTimer, sent, shown, walkVars, inputVars>>

\* Mutant of RunFrameBegin: the frame function pushes no theme.
RunFrameBeginNoTheme ==
    /\ pc = "idle"
    /\ LET th == NilTheme
       IN \E co \in Orderings(DOMAIN th.colors), vo \in Orderings(DOMAIN th.vars) :
            LET c == PushAll(styleColors, colorStack, th.colors, co)
                v == PushAll(styleVars, varStack, th.vars, vo)
            IN /\ styleColors' = c.style
               /\ colorStack' = c.stack
               /\ styleVars' = v.style
               /\ varStack' = v.stack
               /\ callStack' = <<Frame("Run", th.colors, th.vars, Len(co), Len(vo))>>
    /\ pc' = "walk"
    /\ UNCHANGED <<currentThemeObject, globalStatus, drawn, stateMap, time,
                   lastBuild, timerGhost,
                   lastTimer, sent, shown, walkVars, inputVars>>

\* The frame function of MasterWindow.Run up to the call of loopFunc: the
\* current theme's colours and variables are pushed and counted.
RunFrameBegin ==
    /\ pc = "idle"
    /\ LET th == IF currentThemeObject.name # Nil THEN currentThemeObject
                 ELSE NilTheme
       IN \E co \in Orderings(DOMAIN th.colors), vo \in Orderings(DOMAIN th.vars) :
            LET c == PushAll(styleColors, colorStack, th.colors, co)
                v == PushAll(styleVars, varStack, th.vars, vo)
            IN /\ styleColors' = c.style
               /\ colorStack' = c.stack
               /\ styleVars' = v.style
               /\ varStack' = v.stack
               /\ callStack' = <<Frame("Run", th.colors, th.vars, Len(co), Len(vo))>>
    /\ pc' = "walk"
    /\ UNCHANGED <<currentThemeObject, globalStatus, drawn, stateMap, time,
                   lastBuild, timerGhost,
                   lastTimer, sent, shown, walkVars, inputVars>>

\* Mutant of PopCounts: the two counts are taken from each other's variable.
PopCountsSwapped(frame) == [colors |-> frame.varCount, vars |-> frame.colorCount]

\* Mutant of PopCounts: Run takes its counts from the theme that is current
\* when the frame ends.
PopCountsFromTheme(frame) ==
    IF frame.kind = "Run"
    THEN [colors |-> Cardinality(DOMAIN currentThemeObject.colors),
          vars |-> Cardinality(DOMAIN currentThemeObject.vars)]
    ELSE [colors |-> frame.colorCount, vars |-> frame.varCount]

\* The counts MasterWindow.Run and StyleSetter.Build pop with.
PopCounts(frame) == [colors |-> frame.colorCount, vars |-> frame.varCount]

\* The pops that end MasterWindow.Run's frame function and StyleSetter.Build:
\* the variables first, then the colours.
PopStyles(frame) ==
    LET n == PopCounts(frame)
        v == PopN(styleVars, varStack, n.vars)
        c == PopN(styleColors, colorStack, n.colors)
    IN /\ styleVars' = v.style
       /\ varStack' = v.stack
       /\ styleColors' = c.style
       /\ colorStack' = c.stack

\* Mutant of RunFrameEnd: the colours of the theme are never popped.
RunFrameEndVarsOnly ==
    /\ pc = "walk"
    /\ Len(callStack) = 1
    /\ LET v == PopN(styleVars, varStack, Top.varCount)
       IN styleVars' = v.style /\ varStack' = v.stack
    /\ callStack' = <<>>
    /\ pc' = "idle"
    /\ UNCHANGED <<styleColors, colorStack, currentThemeObject, globalStatus,
                   drawn, stateMap, time, lastBuild, timerGhost,
                   lastTimer, sent, shown, walkVars, inputVars>>

\* loopFunc has returned: the rest of the frame function.
RunFrameEnd ==
    /\ pc = "walk"
    /\ Len(callStack) = 1
    /\ PopStyles(Top)
    /\ callStack' = <<>>
    /\ pc' = "idle"
    /\ UNCHANGED <<currentThemeObject, globalStatus, drawn, stateMap, time,
                   lastBuild, timerGhost,
                   lastTimer, sent, shown, walkVars, inputVars>>

\* Layout.Build, ColumnWidget.Build, SingleWindowWidget.Build and
\* RowWidget.Build up to their first child.  A Row whose table the backend
\* does not open builds no child at all.
EnterContainer ==
    /\ pc = "walk"
    /\ Len(callStack) < MaxDepth
    /\ \E kind \in PlainKinds, open \in BOOLEAN :
        /\ kind # "Row" => open
        /\ callStack' = IF open
                        THEN Append(callStack, Frame(kind, EmptyMap, EmptyMap, 0, 0))
                        ELSE callStack
    /\ UNCHANGED <<pc, styleColors, colorStack, styleVars, varStack,
                   currentThemeObject, globalStatus, drawn, stateMap, time,
                   lastBuild, timerGhost,
                   lastTimer, sent, shown, walkVars, inputVars>>

\* StyleSetter.Build up to its first child: the counts are taken, then every
\* colour and every variable of the setter is pushed.
EnterStyle ==
    /\ pc = "walk"
    /\ Len(callStack) < MaxDepth
    /\ \E colors \in PartialMaps(ColorIDs, LocalColors),
          svars \in PartialMaps(VarIDs, LocalVars) :
        \E co \in Orderings(DOMAIN colors), vo \in Orderings(DOMAIN svars) :
            LET c == PushAll(styleColors, colorStack, colors, co)
                v == PushAll(styleVars, varStack, svars, vo)
            IN /\ callStack' = Append(callStack,
                                      Frame("Style", colors, svars,
                                            Cardinality(DOMAIN colors),
                                            Cardinality(DOMAIN svars)))
               /\ styleColors' = c.style
               /\ colorStack' = c.stack
               /\ styleVars' = v.style
               /\ varStack' = v.stack
    /\ UNCHANGED <<pc, currentThemeObject, globalStatus, drawn, stateMap, time,
                   lastBuild, timerGhost,
                   lastTimer, sent, shown, walkVars, inputVars>>

\* Mutant of ReturnContainer: a StyleSetter returns without popping.
ReturnContainerNoPop ==
    /\ pc = "walk"
    /\ Len(callStack) > 1
    /\ callStack' = SubSeq(callStack, 1, Len(callStack) - 1)
    /\ UNCHANGED <<pc, styleColors, colorStack, styleVars, varStack,
                   currentThemeObject, globalStatus, drawn, stateMap, time,
                   lastBuild, timerGhost,
                   lastTimer, sent, shown, walkVars, inputVars>>

\* The end of a container's Build after its last child: a StyleSetter pops
\* what it counted, the others pop nothing.
ReturnContainer ==
    /\ pc = "walk"
    /\ Len(callStack) > 1
    /\ IF Top.kind = "Style"
       THEN PopStyles(Top)
       ELSE UNCHANGED <<styleColors, colorStack, styleVars, varStack>>
    /\ callStack' = SubSeq(callStack, 1, Len(callStack) - 1)
    /\ UNCHANGED <<pc, currentThemeObject, globalStatus, drawn, stateMap, time,
                   lastBuild, timerGhost,
                   lastTimer, sent, shown, walkVars, inputVars>>

\* A nil child: Layout, Column, SingleWindow and StyleSetter test for it and
\* skip it; Row calls Build on it, a nil dereference.  loopFunc itself holds
\* no child list.
BuildNilChild ==
    /\ pc = "walk"
    /\ Len(callStack) > 1
    /\ IF Top.kind = "Row" THEN Panic ELSE UNCHANGED vars

\* LabelWidget.Build.
BuildLabel ==
    /\ pc = "walk"
    /\ drawn' = Draw("Label", "Text")
    /\ UNCHANGED <<pc, callStack, styleColors, colorStack, styleVars, varStack,
                   currentThemeObject, globalStatus, stateMap, time, lastBuild,
                   timerGhost,
                   lastTimer, sent, shown, walkVars, inputVars>>

\* The callbacks the host registers on a button.
OnClicks ==
    {[op |-> Nil, theme |-> NilTheme], [op |-> "LogStatus", theme |-> NilTheme]}
        \cup {[op |-> "SetGlobalTheme", theme |-> t] : t \in GetAvailableThemes}

\* ButtonWidget.Build: the button is drawn; a click runs the callback.
BuildButton ==
    /\ pc = "walk"
    /\ drawn' = Draw("Button", "Button")
    /\ \E onClick \in OnClicks, clicked \in BOOLEAN :
        IF clicked /\ onClick.op = "SetGlobalTheme"
        THEN SetGlobalTheme(onClick.theme)
        ELSE IF clicked /\ onClick.op = "LogStatus"
        THEN /\ stateMap' = LogStatus(stateMap, "button clicked!")
             /\ sent' = Sent("button clicked!")
             /\ UNCHANGED currentThemeObject
        ELSE UNCHANGED <<currentThemeObject, stateMap, sent>>
    /\ UNCHANGED <<pc, callStack, styleColors, colorStack, styleVars, varStack,
                   globalStatus, time, lastBuild, timerGhost,
                   lastTimer, shown, walkVars, inputVars>>

\* Mutant of BuildCheckboxNil: the backend call comes before the nil test.
BuildCheckboxNilDrawn ==
    /\ pc = "walk"
    /\ pc' = "aborted"
    /\ drawn' = Draw("Checkbox", "Text")
    /\ UNCHANGED <<callStack, styleColors, colorStack, styleVars, varStack,
                   currentThemeObject, globalStatus, stateMap, time, lastBuild,
                   timerGhost, lastTimer, sent, shown, walkVars, inputVars>>

\* CheckboxWidget.Build with a nil backing value: a panic before any draw.
BuildCheckboxNil ==
    /\ pc = "walk"
    /\ Panic

----------------------------------------------------------------------------
(* The walk of a tree of descriptors *)

LeafKinds == {"Label"}

ContainerKinds == PlainKinds \cup {"Style"}

\* The kinds a widget at path may be of: below MaxDepth - 1 containers
\* there are leaves only.  A nil is a child that is no widget.
KindsAt(path) ==
    LeafKinds \cup {Nil}
        \cup (IF Len(path) < MaxDepth - 1 THEN ContainerKinds ELSE {})

\* The child lists the descriptor of a container at path may hold.
ChildLists(path) ==
    UNION {[1..n -> KindsAt(path \o <<1>>)] : n \in 0..MaxWidth}

WalkTop == walkStack[Len(walkStack)]

\* Mutant of ChildAt: the loop over the children runs from the last one.
ChildAtReversed(frame) == Len(frame.children) + 1 - frame.next

\* The index a container's range loop is at.
ChildAt(frame) == frame.next

\* The walk stack when the range loop of the innermost container moves on.
Advance(stack) ==
    IF stack = <<>> THEN stack ELSE [stack EXCEPT ![Len(stack)].next = @ + 1]

\* Build is called on the widget of the given kind at path, from the stack
\* and the records given: the call is recorded, a label is drawn, and a
\* container with children stays on the stack for them -- a Row only if the
\* backend opens its table.
WalkBuild(stack, known, calls, path, kind) ==
    \E children \in (IF kind \in ContainerKinds THEN ChildLists(path) ELSE {<<>>}),
       open \in BOOLEAN :
        LET kids == {path \o <<i>> : i \in 1..Len(children)}
        IN /\ (kind # "Row" \/ children = <<>>) => open
           /\ visited' = Append(calls, path)
           /\ tree' = [p \in DOMAIN known \cup {path} \cup kids |->
                         IF p = path THEN [kind |-> kind, open |-> open]
                         ELSE IF p \in kids
                         THEN [kind |-> children[p[Len(p)]], open |-> TRUE]
                         ELSE known[p]]
           /\ walkStack' = IF children # <<>> /\ open
                            THEN Append(stack, [path |-> path, kind |-> kind,
                                                children |-> children, next |-> 1])
                            ELSE stack
           /\ drawn' = IF kind = "Label" THEN Draw("Label", "Text") ELSE drawn

\* loopFunc calls Build on the root of a tree it has composed.
WalkRoot ==
    /\ pc = "walk"
    /\ walkStack = <<>>
    /\ \E kind \in ContainerKinds \cup LeafKinds :
            WalkBuild(<<>>, EmptyMap, <<>>, <<>>, kind)
    /\ UNCHANGED <<pc, callStack, styleColors, colorStack, styleVars, varStack,
                   currentThemeObject, globalStatus, stateMap, time, lastBuild,
                   timerGhost, lastTimer, sent, shown, inputVars>>

\* One turn of the range loop of the innermost container: Layout, Column,
\* SingleWindow and StyleSetter skip a nil child, Row calls Build on it.
WalkChild ==
    /\ pc = "walk"
    /\ walkStack # <<>>
    /\ WalkTop.next <= Len(WalkTop.children)
    /\ LET i == ChildAt(WalkTop)
           kind == WalkTop.children[i]
       IN IF kind = Nil /\ WalkTop.kind = "Row"
          THEN Panic
          ELSE /\ IF kind = Nil
                  THEN /\ walkStack' = Advance(walkStack)
                       /\ UNCHANGED <<tree, visited, drawn>>
                  ELSE WalkBuild(Advance(walkStack), tree, visited,
                                 WalkTop.path \o <<i>>, kind)
               /\ UNCHANGED <<pc, callStack, styleColors, colorStack, styleVars,
                              varStack, currentThemeObject, globalStatus,
                              stateMap, time, lastBuild, timerGhost, lastTimer,
                              sent, shown, inputVars>>

\* The range loop of the innermost container is over: its Build returns.
WalkReturn ==
    /\ pc = "walk"
    /\ walkStack # <<>>
    /\ WalkTop.next > Len(WalkTop.children)
    /\ walkStack' = SubSeq(walkStack, 1, Len(walkStack) - 1)
    /\ UNCHANGED <<pc, callStack, styleColors, colorStack, styleVars, varStack,
                   currentThemeObject, globalStatus, drawn, stateMap, time,
                   lastBuild, timerGhost, lastTimer, sent, shown, tree, visited,
                   inputVars>>

----------------------------------------------------------------------------
(* The input widgets *)

\* The values the backend may leave in the variable behind an input widget.
ValuesOf(kind) ==
    IF kind = "Checkbox" THEN BOOLEAN
    ELSE IF kind = "Slider" THEN {0, 50, 100}
    ELSE IF kind = "ColorEdit" THEN {"Orange", "Red"}
    ELSE {"Enter your name", "Ada"}

\* The test each Build makes before it calls onChange, on the value old it
\* took before the backend call, the value new it finds after it and what
\* the backend call returned.
CheckboxFires(w, old, new, returned) == old # new /\ w.onChange

SliderFires(w, old, new, returned) == returned /\ (old # new /\ w.onChange)

ColorEditFires(w, old, new, returned) == returned /\ (old # new /\ w.onChange)

\* Mutant of InputTextFires: what the backend reports is taken for a change.
InputTextFiresOnEdit(w, old, new, returned) == returned /\ w.onChange

InputTextFires(w, old, new, returned) == returned /\ old # new /\ w.onChange

Fires(w, old, new, returned) ==
    IF w.kind = "Checkbox" THEN CheckboxFires(w, old, new, returned)
    ELSE IF w.kind = "Slider" THEN SliderFires(w, old, new, returned)
    ELSE IF w.kind = "ColorEdit" THEN ColorEditFires(w, old, new, returned)
    ELSE InputTextFires(w, old, new, returned)

\* CheckboxWidget.Build (on a variable that is there), SliderWidget.Build,
\* ColorEditWidget.Build and InputTextWidget.Build: the value is taken, the
\* backend call may write the variable and returns whether the user acted,
\* and onChange is called if the widget's test holds.
BuildInput(w, returned, new) ==
    /\ pc = "walk"
    /\ ~returned => new = backing[w.kind]
    /\ backing' = [backing EXCEPT ![w.kind] = new]
    /\ lastInput' = [kind |-> w.kind, onChange |-> w.onChange,
                     returned |-> returned, old |-> backing[w.kind], new |-> new,
                     fired |-> IF Fires(w, backing[w.kind], new, returned)
                               THEN 1 ELSE 0]
    /\ UNCHANGED <<pc, callStack, styleColors, colorStack, styleVars, varStack,
                   currentThemeObject, globalStatus, drawn, stateMap, time,
                   lastBuild, timerGhost, lastTimer, sent, shown, walkVars>>

----------------------------------------------------------------------------
(* The retained state store: counters *)

\* Mutant of Counter: the id is drawn afresh for every descriptor, as the
\* ids of anonymous widgets are.
CounterAutoID(label) ==
    [id |-> label \o "##counter" \o ToString(time), label |-> label,
     minValue |-> 0, maxValue |-> 100, onChange |-> FALSE]

\* Counter(label), then the builder calls Min, Max and OnChange.
Counter(label) ==
    [id |-> label \o "##counter", label |-> label, minValue |-> 0,
     maxValue |-> 100, onChange |-> FALSE]

Min(c, min) == [c EXCEPT !.minValue = min]

Max(c, max) == [c EXCEPT !.maxValue = max]

OnChange(c) == [c EXCEPT !.onChange = TRUE]

\* Mutant of CounterGetState: a fresh record on every call.
CounterGetStateFresh(st, c) ==
    [k \in DOMAIN st \cup {c.id} |->
        IF k = c.id THEN [kind |-> "counter", value |-> c.minValue, step |-> 1]
        ELSE st[k]]

\* CounterWidget.getState on the store st: the store is returned as it is when
\* it holds a counter record under c.id; otherwise a fresh record, its value
\* the builder's minimum, is stored under c.id over whatever was there.
CounterGetState(st, c) ==
    IF c.id \in DOMAIN st /\ st[c.id].kind = "counter" THEN st
    ELSE [k \in DOMAIN st \cup {c.id} |->
            IF k = c.id THEN [kind |-> "counter", value |-> c.minValue, step |-> 1]
            ELSE st[k]]

\* Mutant of CounterMinus: the test against the minimum admits equality.
CounterMinusAtMin(c, pressed, v) == IF pressed /\ v >= c.minValue THEN v - 1 ELSE v

\* The "-" button of CounterWidget.Build on the value v.
CounterMinus(c, pressed, v) == IF pressed /\ v > c.minValue THEN v - 1 ELSE v

\* The "+" button of CounterWidget.Build on the value v.
CounterPlus(c, pressed, v) == IF pressed /\ v < c.maxValue THEN v + 1 ELSE v

\* Mutant of Fired: the callback is called before the value is changed.
FiredOldValue(c, old, new) == IF new # old /\ c.onChange THEN <<old>> ELSE <<>>

\* The onChange calls of one button: none when the value stayed or no
\* callback is registered, else one with the new value.
Fired(c, old, new) == IF new # old /\ c.onChange THEN <<new>> ELSE <<>>

\* CounterWidget.Build.  open is what BeginTableV returns, minus and plus
\* what the two buttons return.
BuildCounter(c, open, minus, plus) ==
    /\ pc = "walk"
    /\ LET s1 == CounterGetState(stateMap, c)
           v0 == s1[c.id].value
           v1 == CounterMinus(c, open /\ minus, v0)
           v2 == CounterPlus(c, open /\ plus, v1)
       IN /\ stateMap' = [s1 EXCEPT ![c.id].value = v2]
          /\ lastBuild' = [kind |-> "Build", id |-> c.id, min |-> c.minValue,
                           max |-> c.maxValue, minus |-> open /\ minus,
                           plus |-> open /\ plus,
                           onChange |-> c.onChange, at |-> time,
                           existed |-> c.id \in DOMAIN stateMap,
                           before |-> v0, after |-> v2,
                           fired |-> Fired(c, v0, v1) \o Fired(c, v1, v2)]
    /\ UNCHANGED <<pc, callStack, styleColors, colorStack, styleVars, varStack,
                   currentThemeObject, globalStatus, drawn, time, timerGhost,
                   lastTimer, sent, shown, walkVars, inputVars>>

\* CounterWidget.GetValue.
CounterGetValue(c) ==
    /\ pc \in {"main", "walk"}
    /\ LET s1 == CounterGetState(stateMap, c)
       IN /\ stateMap' = s1
          /\ lastBuild' = [kind |-> "GetValue", id |-> c.id, min |-> c.minValue,
                           max |-> c.maxValue, minus |-> FALSE, plus |-> FALSE,
                           onChange |-> c.onChange, at |-> time,
                           existed |-> c.id \in DOMAIN stateMap,
                           before |-> s1[c.id].value, after |-> s1[c.id].value,
                           fired |-> <<>>]
    /\ UNCHANGED <<pc, callStack, styleColors, colorStack, styleVars, varStack,
                   currentThemeObject, globalStatus, drawn, time, timerGhost,
                   lastTimer, sent, shown, walkVars, inputVars>>

\* Mutant of CounterSetValue: the value is stored without the range test.
CounterSetValueUnchecked(c, value) ==
    /\ pc \in {"main", "walk"}
    /\ LET s1 == CounterGetState(stateMap, c)
       IN /\ stateMap' = [s1 EXCEPT ![c.id].value = value]
          /\ lastBuild' = [kind |-> "SetValue", id |-> c.id, min |-> c.minValue,
                           max |-> c.maxValue, minus |-> FALSE, plus |-> FALSE,
                           onChange |-> c.onChange, at |-> time,
                           existed |-> c.id \in DOMAIN stateMap,
                           before |-> s1[c.id].value, after |-> value,
                           fired |-> <<>>]
    /\ UNCHANGED <<pc, callStack, styleColors, colorStack, styleVars, varStack,
                   currentThemeObject, globalStatus, drawn, time, timerGhost,
                   lastTimer, sent, shown, walkVars, inputVars>>

\* CounterWidget.SetValue.
CounterSetValue(c, value) ==
    /\ pc \in {"main", "walk"}
    /\ LET s1 == CounterGetState(stateMap, c)
           v0 == s1[c.id].value
           v1 == IF value >= c.minValue /\ value <= c.maxValue THEN value ELSE v0
       IN /\ stateMap' = [s1 EXCEPT ![c.id].value = v1]
          /\ lastBuild' = [kind |-> "SetValue", id |-> c.id, min |-> c.minValue,
                           max |-> c.maxValue, minus |-> FALSE, plus |-> FALSE,
                           onChange |-> c.onChange, at |-> time,
                           existed |-> c.id \in DOMAIN stateMap,
                           before |-> v0, after |-> v1, fired |-> <<>>]
    /\ UNCHANGED <<pc, callStack, styleColors, colorStack, styleVars, varStack,
                   currentThemeObject, globalStatus, drawn, time, timerGhost,
                   lastTimer, sent, shown, walkVars, inputVars>>

----------------------------------------------------------------------------
(* The retained state store: timers *)

\* Mutant of Timer: the timer's key is made with the counter's suffix.
TimerCounterSuffix(label) == [id |-> label \o "##counter", label |-> label]

\* Timer(label).
Timer(label) == [id |-> label \o "##timer", label |-> label]

\* TimerWidget.getState on the store st.
TimerGetState(st, t) ==
    IF t.id \in DOMAIN st /\ st[t.id].kind = "timer" THEN st
    ELSE [k \in DOMAIN st \cup {t.id} |->
            IF k = t.id
            THEN [kind |-> "timer", startTime |-> time, elapsedTime |-> 0,
                  isRunning |-> FALSE, isPaused |-> FALSE]
            ELSE st[k]]

\* Mutant of TimerUpdate: the elapsed time is derived whatever the flags.
TimerUpdateAlways(r) == [r EXCEPT !.elapsedTime = time - r.startTime]

\* The top of TimerWidget.Build: a running timer's elapsed time is derived.
TimerUpdate(r) ==
    IF r.isRunning /\ ~r.isPaused
    THEN [r EXCEPT !.elapsedTime = time - r.startTime]
    ELSE r

\* Mutant of TimerPrimary: Resume leaves the anchor where Start had put it.
TimerPrimaryNoReanchor(r, pressed) ==
    IF ~pressed THEN r
    ELSE IF ~r.isRunning
    THEN [r EXCEPT !.startTime = time - r.elapsedTime, !.isRunning = TRUE,
                   !.isPaused = FALSE]
    ELSE IF ~r.isPaused
    THEN [r EXCEPT !.isPaused = TRUE]
    ELSE [r EXCEPT !.isPaused = FALSE]

\* The first column of TimerWidget.Build: the one button it shows is Start,
\* Pause or Resume, by the flags.
TimerPrimary(r, pressed) ==
    IF ~pressed THEN r
    ELSE IF ~r.isRunning
    THEN [r EXCEPT !.startTime = time - r.elapsedTime, !.isRunning = TRUE,
                   !.isPaused = FALSE]
    ELSE IF ~r.isPaused
    THEN [r EXCEPT !.isPaused = TRUE]
    ELSE [r EXCEPT !.startTime = time - r.elapsedTime, !.isPaused = FALSE]

\* Mutant of TimerStop: the pause flag survives the Stop.
TimerStopKeepsPaused(r, pressed) ==
    IF pressed THEN [r EXCEPT !.isRunning = FALSE, !.elapsedTime = 0] ELSE r

\* Mutant of TimerStop: the elapsed time survives the Stop.
TimerStopKeepsElapsed(r, pressed) ==
    IF pressed THEN [r EXCEPT !.isRunning = FALSE, !.isPaused = FALSE] ELSE r

\* The Stop button.
TimerStop(r, pressed) ==
    IF pressed
    THEN [r EXCEPT !.isRunning = FALSE, !.isPaused = FALSE, !.elapsedTime = 0]
    ELSE r

\* Mutant of TimerReset: a Reset also resumes a paused timer.
TimerResetResumes(r, pressed) ==
    IF pressed
    THEN [r EXCEPT !.startTime = time, !.elapsedTime = 0, !.isPaused = FALSE]
    ELSE r

\* Mutant of TimerReset: a Reset zeroes the elapsed time, not the anchor.
TimerResetKeepsAnchor(r, pressed) ==
    IF pressed THEN [r EXCEPT !.elapsedTime = 0] ELSE r

\* The Reset button.
TimerReset(r, pressed) ==
    IF pressed THEN [r EXCEPT !.startTime = time, !.elapsedTime = 0] ELSE r

\* The time a timer has spent running and the time it has spent paused
\* since it last started from zero: what a stopwatch beside the program
\* would show.  No code reads it.
NoGhost == [running |-> 0, paused |-> 0]

GhostOf(k) == IF k \in DOMAIN timerGhost THEN timerGhost[k] ELSE NoGhost

\* TimerWidget.Build.  open is what BeginTableV returns; primary, stop and
\* reset are what the three buttons return.
BuildTimer(t, open, primary, stop, reset) ==
    /\ pc = "walk"
    /\ LET s1 == TimerGetState(stateMap, t)
           r1 == TimerUpdate(s1[t.id])
           r2 == TimerPrimary(r1, open /\ primary)
           r3 == TimerStop(r2, open /\ stop)
           r4 == TimerReset(r3, open /\ reset)
       IN /\ stateMap' = [s1 EXCEPT ![t.id] = r4]
          /\ timerGhost' =
                [k \in DOMAIN timerGhost \cup {t.id} |->
                    IF k # t.id THEN timerGhost[k]
                    ELSE IF open /\ (stop \/ reset) THEN NoGhost
                    ELSE GhostOf(k)]
          /\ lastTimer' = [kind |-> "Build", id |-> t.id, at |-> time,
                           primary |-> open /\ primary, stop |-> open /\ stop,
                           reset |-> open /\ reset, before |-> s1[t.id],
                           after |-> r4, result |-> r1.elapsedTime]
    /\ UNCHANGED <<pc, callStack, styleColors, colorStack, styleVars, varStack,
                   currentThemeObject, globalStatus, drawn, time, lastBuild,
                   sent, shown, walkVars, inputVars>>

\* TimerWidget.GetElapsed: getState, then the stored elapsed time is returned.
TimerGetElapsed(t) ==
    /\ pc \in {"main", "walk"}
    /\ LET s1 == TimerGetState(stateMap, t)
       IN /\ stateMap' = s1
          /\ timerGhost' =
                [k \in DOMAIN timerGhost \cup {t.id} |-> GhostOf(k)]
          /\ lastTimer' = [kind |-> "GetElapsed", id |-> t.id, at |-> time,
                           primary |-> FALSE, stop |-> FALSE, reset |-> FALSE,
                           before |-> s1[t.id], after |-> s1[t.id],
                           result |-> s1[t.id].elapsedTime]
    /\ UNCHANGED <<pc, callStack, styleColors, colorStack, styleVars, varStack,
                   currentThemeObject, globalStatus, drawn, time, lastBuild,
                   sent, shown, walkVars, inputVars>>

\* The backend's clock moves on between two frames, up to the tick last.
ClockTick(last) ==
    /\ pc = "idle"
    /\ time < last
    /\ time' = time + 1
    /\ timerGhost' =
        [k \in DOMAIN timerGhost |->
            IF stateMap[k].kind # "timer" \/ ~stateMap[k].isRunning
            THEN timerGhost[k]
            ELSE IF stateMap[k].isPaused
            THEN [timerGhost[k] EXCEPT !.paused = @ + 1]
            ELSE [timerGhost[k] EXCEPT !.running = @ + 1]]
    /\ UNCHANGED <<pc, callStack, styleColors, colorStack, styleVars, varStack,
                   currentThemeObject, globalStatus, drawn, stateMap, lastBuild,
                   lastTimer, sent, shown, walkVars, inputVars>>

Tick == ClockTick(MaxTime)

----------------------------------------------------------------------------
(* The retained state store: the status display *)

\* StatusDisplay().
StatusDisplay == [id |-> "##status_display", height |-> 100]

\* loop(): the global status display is created once.
LoopInstallStatus ==
    /\ pc = "walk"
    /\ globalStatus = Nil
    /\ globalStatus' = StatusDisplay.id
    /\ UNCHANGED <<pc, callStack, styleColors, colorStack, styleVars, varStack,
                   currentThemeObject, drawn, stateMap, time, lastBuild,
                   timerGhost,
                   lastTimer, sent, shown, walkVars, inputVars>>

\* The age below which StatusDisplayWidget.Build draws an entry.
AgeLimit == 10

\* Mutant of StatusLines: an entry of age AgeLimit is still drawn.
RECURSIVE StatusLinesInclusive(_, _)
StatusLinesInclusive(r, i) ==
    IF i = 0 THEN <<>>
    ELSE LET age == time - r.timestamps[i]
         IN (IF age <= AgeLimit
             THEN <<[age |-> age, message |-> r.messages[i]]>>
             ELSE <<>>) \o StatusLinesInclusive(r, i - 1)

\* The loop of StatusDisplayWidget.Build from index i down to 1: the lines
\* it hands to imgui.Text, each the age and the message of an entry.
RECURSIVE StatusLines(_, _)
StatusLines(r, i) ==
    IF i = 0 THEN <<>>
    ELSE LET age == time - r.timestamps[i]
         IN (IF age < AgeLimit
             THEN <<[age |-> age, message |-> r.messages[i]]>>
             ELSE <<>>) \o StatusLines(r, i - 1)

\* StatusDisplayWidget.Build: getState, then the entries younger than
\* AgeLimit are drawn, newest first.  The record is only read.
BuildStatusDisplay(s) ==
    /\ pc = "walk"
    /\ LET s1 == StatusGetState(stateMap, s.id)
       IN /\ stateMap' = s1
          /\ shown' = StatusLines(s1[s.id], Len(s1[s.id].messages))
    /\ UNCHANGED <<pc, callStack, styleColors, colorStack, styleVars, varStack,
                   currentThemeObject, globalStatus, drawn, time, lastBuild,
                   timerGhost, lastTimer, sent, walkVars, inputVars>>

\* A callback of the host calls LogStatus.
HostLogStatus(message) ==
    /\ pc = "walk"
    /\ stateMap' = LogStatus(stateMap, message)
    /\ sent' = Sent(message)
    /\ UNCHANGED <<pc, callStack, styleColors, colorStack, styleVars, varStack,
                   currentThemeObject, globalStatus, drawn, time, lastBuild,
                   timerGhost, lastTimer, shown, walkVars, inputVars>>

----------------------------------------------------------------------------
(* The program *)

NoBuild ==
    [kind |-> "none", id |-> Nil, min |-> 0, max |-> 0, minus |-> FALSE,
     plus |-> FALSE, onChange |-> FALSE, at |-> 0, existed |-> FALSE,
     before |-> 0, after |-> 0, fired |-> <<>>]

NoInput ==
    [kind |-> "none", onChange |-> FALSE, returned |-> FALSE, old |-> Nil,
     new |-> Nil, fired |-> 0]

NoTimer ==
    [kind |-> "none", id |-> Nil, at |-> 0, primary |-> FALSE, stop |-> FALSE,
     reset |-> FALSE,
     before |-> [kind |-> "timer", startTime |-> 0, elapsedTime |-> 0,
                 isRunning |-> FALSE, isPaused |-> FALSE],
     after |-> [kind |-> "timer", startTime |-> 0, elapsedTime |-> 0,
                isRunning |-> FALSE, isPaused |-> FALSE],
     result |-> 0]

Init ==
    /\ pc = "main"
    /\ callStack = <<>>
    /\ styleColors = [c \in ColorIDs |-> DefaultColor]
    /\ colorStack = <<>>
    /\ styleVars = [v \in VarIDs |-> 0]
    /\ varStack = <<>>
    /\ currentThemeObject = NilTheme
    /\ globalStatus = Nil
    /\ drawn = [item |-> "none", color |-> DefaultColor]
    /\ stateMap = EmptyMap
    /\ time = 0
    /\ lastBuild = NoBuild
    /\ timerGhost = EmptyMap
    /\ lastTimer = NoTimer
    /\ sent = <<>>
    /\ shown = <<>>
    /\ walkStack = <<>>
    /\ tree = EmptyMap
    /\ visited = <<>>
    /\ backing = [Checkbox |-> FALSE, Slider |-> 50, ColorEdit |-> "Orange",
                  InputText |-> "Enter your name"]
    /\ lastInput = NoInput

\* A host whose loop function builds containers, style setters, labels,
\* buttons and checkboxes, as loop() of main.go does.
Next ==
    \/ MainSetGlobalTheme
    \/ StartRun
    \/ RunFrameBegin
    \/ RunFrameEnd
    \/ EnterContainer
    \/ EnterStyle
    \/ ReturnContainer
    \/ BuildNilChild
    \/ BuildLabel
    \/ BuildButton
    \/ BuildCheckboxNil

Spec == Init /\ [][Next]_vars

----------------------------------------------------------------------------
(* Hosts of the stateful widgets *)

Labels == {"Lives", "Score"}

\* The counters a host declares: every label, every Min and Max up to
\* MaxCounter (a Min above the Max included), with and without a callback.
HostCounters ==
    {Max(Min(Counter(l), m), n) : l \in Labels, m \in 0..MaxCounter, n \in 0..MaxCounter}
        \cup {OnChange(Max(Min(Counter(l), m), n)) :
                l \in Labels, m \in 0..MaxCounter, n \in 0..MaxCounter}

HostBuildCounter ==
    \E c \in HostCounters, open \in BOOLEAN, minus \in BOOLEAN, plus \in BOOLEAN :
        /\ ~open => (~minus /\ ~plus)
        /\ BuildCounter(c, open, minus, plus)

HostGetValue == \E c \in HostCounters : CounterGetValue(c)

HostSetValue == \E c \in HostCounters, v \in 0..MaxCounter : CounterSetValue(c, v)

\* A host whose loop function builds counters and reads and sets them.
NextCounter ==
    \/ StartRun
    \/ RunFrameBegin
    \/ RunFrameEnd
    \/ HostBuildCounter
    \/ HostGetValue
    \/ HostSetValue

SpecCounter == Init /\ [][NextCounter]_vars

HostTimers == {Timer("Game Time")}

HostBuildTimer ==
    \E t \in HostTimers, open \in BOOLEAN, primary \in BOOLEAN,
       stop \in BOOLEAN, reset \in BOOLEAN :
        /\ ~open => (~primary /\ ~stop /\ ~reset)
        /\ BuildTimer(t, open, primary, stop, reset)

HostGetElapsed == \E t \in HostTimers : TimerGetElapsed(t)

\* A host whose loop function builds a timer, not in every frame, and reads
\* its elapsed time while the clock runs.
NextTimer ==
    \/ StartRun
    \/ RunFrameBegin
    \/ RunFrameEnd
    \/ Tick
    \/ HostBuildTimer
    \/ HostGetElapsed

SpecTimer == Init /\ [][NextTimer]_vars

\* The counters of a host that declares one label with two Mins.
StoreCounters == {OnChange(Max(Min(Counter("Lives"), m), MaxCounter)) : m \in 0..1}

StoreBuildCounter ==
    \E c \in StoreCounters, minus \in BOOLEAN, plus \in BOOLEAN :
        BuildCounter(c, TRUE, minus, plus)

StoreGetValue == \E c \in StoreCounters : CounterGetValue(c)

StoreSetValue == \E c \in StoreCounters, v \in 0..MaxCounter : CounterSetValue(c, v)

StoreBuildTimer ==
    \E t \in HostTimers, primary \in BOOLEAN, stop \in BOOLEAN, reset \in BOOLEAN :
        BuildTimer(t, TRUE, primary, stop, reset)

StoreBuildStatus == BuildStatusDisplay(StatusDisplay)

StoreLogStatus == \E m \in {"clicked"} : Len(sent) < MaxSent /\ HostLogStatus(m)

\* A host whose loop function builds a counter, a timer and the status
\* display and logs from its callbacks.
NextStore ==
    \/ StartRun
    \/ RunFrameBegin
    \/ RunFrameEnd
    \/ LoopInstallStatus
    \/ StoreBuildCounter
    \/ StoreGetValue
    \/ StoreSetValue
    \/ StoreBuildTimer
    \/ StoreBuildStatus
    \/ StoreLogStatus

SpecStore == Init /\ [][NextStore]_vars

\* A host builds a widget once in a frame, and the clock has moved on when
\* the next frame begins: its Build of a counter follows no counter call,
\* its Build of a timer no timer call, of the same clock value.
FramesBuildCounter ==
    \E c \in StoreCounters, minus \in BOOLEAN, plus \in BOOLEAN :
        /\ lastBuild.kind = "none" \/ lastBuild.at < time
        /\ BuildCounter(c, TRUE, minus, plus)

FramesBuildTimer ==
    \E t \in HostTimers, primary \in BOOLEAN, stop \in BOOLEAN, reset \in BOOLEAN :
        /\ lastTimer.kind = "none" \/ lastTimer.at < time
        /\ BuildTimer(t, TRUE, primary, stop, reset)

FramesTick == ClockTick(MaxFrames)

\* A host whose loop function builds one counter and one timer, from fresh
\* descriptors, in some of its frames.
NextFrames ==
    \/ StartRun
    \/ RunFrameBegin
    \/ RunFrameEnd
    \/ FramesTick
    \/ FramesBuildCounter
    \/ FramesBuildTimer

SpecFrames == Init /\ [][NextFrames]_vars

\* loopFunc returns when the Build of its tree has returned.
WalkFrameEnd == walkStack = <<>> /\ RunFrameEnd

\* A host whose loop function composes a tree of containers and labels,
\* with style setters that set nothing, and builds it.
NextWalk ==
    \/ StartRun
    \/ RunFrameBegin
    \/ WalkFrameEnd
    \/ WalkRoot
    \/ WalkChild
    \/ WalkReturn

SpecWalk == Init /\ [][NextWalk]_vars

InputWidgets ==
    {[kind |-> k, onChange |-> f] :
        k \in {"Checkbox", "Slider", "ColorEdit", "InputText"}, f \in BOOLEAN}

HostBuildInput ==
    \E w \in InputWidgets, returned \in BOOLEAN :
        \E new \in ValuesOf(w.kind) : BuildInput(w, returned, new)

\* A host whose loop function builds a checkbox, a slider, a colour picker
\* and a text input, with and without a callback.
NextInput ==
    \/ StartRun
    \/ RunFrameBegin
    \/ RunFrameEnd
    \/ HostBuildInput
    \/ BuildCheckboxNil

SpecInput == Init /\ [][NextInput]_vars

\* The program of main.go from its first statement: main sets the theme,
\* then the frames install the status display, log and build it.
NextBoot ==
    \/ MainSetGlobalTheme
    \/ StartRun
    \/ RunFrameBegin
    \/ RunFrameEnd
    \/ LoopInstallStatus
    \/ StoreLogStatus
    \/ StoreBuildStatus

SpecBoot == Init /\ [][NextBoot]_vars

\* Labels that are themselves made of the suffixes of the keys.
KeyLabels == {"", "##status_display"}

KeyCounters == {Max(Counter(l), 1) : l \in KeyLabels}

KeyTimers == {Timer(l) : l \in KeyLabels}

KeysBuildCounter == \E c \in KeyCounters, plus \in BOOLEAN : BuildCounter(c, TRUE, FALSE, plus)

KeysBuildTimer == \E t \in KeyTimers, primary \in BOOLEAN : BuildTimer(t, TRUE, primary, FALSE, FALSE)

\* A host that gives a counter and a timer to each of these labels, next to
\* the status display.
NextKeys ==
    \/ StartRun
    \/ RunFrameBegin
    \/ RunFrameEnd
    \/ LoopInstallStatus
    \/ KeysBuildCounter
    \/ KeysBuildTimer
    \/ StoreBuildStatus
    \/ StoreLogStatus

SpecKeys == Init /\ [][NextKeys]_vars

\* The messages of a host that letters them in the order it logs them.
Messages == <<"A", "B", "C", "D", "E", "F", "G">>

LogLogStatus == Len(sent) < MaxSent /\ HostLogStatus(Messages[Len(sent) + 1])

LogBuildStatus == BuildStatusDisplay(StatusDisplay)

\* A host whose loop function installs and builds the status display and
\* logs from its callbacks while the clock runs.
NextLog ==
    \/ StartRun
    \/ RunFrameBegin
    \/ RunFrameEnd
    \/ Tick
    \/ LoopInstallStatus
    \/ LogLogStatus
    \/ LogBuildStatus

SpecLog == Init /\ [][NextLog]_vars

\* Descriptors written as struct literals: the id is any key, not one that
\* Counter, Timer or StatusDisplay derived from a label.
LitKeys == {"a", "b"}

LitCounters ==
    {[id |-> k, label |-> "lit", minValue |-> 0, maxValue |-> MaxCounter,
      onChange |-> FALSE] : k \in LitKeys}

LitTimers == {[id |-> k, label |-> "lit"] : k \in LitKeys}

LitStatus == {[id |-> k, height |-> 100] : k \in LitKeys}

LitBuildCounter ==
    \E c \in LitCounters, minus \in BOOLEAN, plus \in BOOLEAN :
        BuildCounter(c, TRUE, minus, plus)

LitBuildTimer ==
    \E t \in LitTimers, primary \in BOOLEAN, stop \in BOOLEAN, reset \in BOOLEAN :
        BuildTimer(t, TRUE, primary, stop, reset)

LitBuildStatus == \E s \in LitStatus : BuildStatusDisplay(s)

\* A host that builds widgets of the three kinds from literal descriptors.
NextLit ==
    \/ StartRun
    \/ RunFrameBegin
    \/ RunFrameEnd
    \/ LitBuildCounter
    \/ LitBuildTimer
    \/ LitBuildStatus

SpecLit == Init /\ [][NextLit]_vars

----------------------------------------------------------------------------
(* The style stacks *)

ThemeColors == {t.colors[c] : t \in GetAvailableThemes, c \in ColorIDs}

StyleFrames == {i \in DOMAIN callStack : callStack[i].kind = "Style"}

\* A StyleSetter.Build returns: its frame leaves the call stack.
StyleSetterReturns ==
    /\ pc = "walk"
    /\ Len(callStack) > 1
    /\ Top.kind = "Style"
    /\ callStack' = SubSeq(callStack, 1, Len(callStack) - 1)

\* C1: when a StyleSetter.Build returns (the outermost one as much as a
\* nested one, whatever its maps and its children were), both stacks are as
\* deep as they were when that Build began.
C1_StyleStackBalance ==
    [][StyleSetterReturns =>
        /\ Len(colorStack') = Top.colorDepth0
        /\ Len(varStack') = Top.varDepth0]_vars

\* A widget was drawn with a StyleSetter's colour, every StyleSetter has
\* returned, and the stacks hold what Run pushed and nothing else.
C1_Witness ==
    /\ pc = "walk"
    /\ Len(callStack) = 1
    /\ drawn.color \in LocalColors
    /\ Len(colorStack) = Top.colorCount
    /\ Len(varStack) = Top.varCount

\* C2: when a child's Build panics inside a StyleSetter, both stacks are
\* back at the depth they had before that StyleSetter.Build began.
C2_AbortedStyleUnwound ==
    pc = "aborted" =>
        \A i \in StyleFrames :
            /\ Len(colorStack) = callStack[i].colorDepth0
            /\ Len(varStack) = callStack[i].varDepth0

\* C3: the step that ends a frame leaves both stacks as deep as they were
\* when the frame began.
C3_FrameBalance ==
    [][(pc = "walk" /\ pc' = "idle") =>
        /\ Len(colorStack') = callStack[1].colorDepth0
        /\ Len(varStack') = callStack[1].varDepth0]_vars

\* A frame that pushed a theme and drew a widget with it has ended.
C3_Witness ==
    /\ pc = "idle"
    /\ drawn.color \in ThemeColors
    /\ colorStack = <<>>
    /\ varStack = <<>>

\* The value the innermost enclosing scope gives a slot: the last frame of
\* the call stack whose map defines it, the backend's default if none does.
Innermost(slot, field, default) ==
    LET defs == {i \in DOMAIN callStack : slot \in DOMAIN callStack[i][field]}
    IN IF defs = {} THEN default
       ELSE callStack[CHOOSE i \in defs : \A j \in defs : j <= i][field][slot]

\* C4: at every point of the walk the effective value of every colour and
\* variable is the one the innermost enclosing scope gave it: a nested
\* StyleSetter's, else an enclosing one's, else the pushed theme's.
C4_InnermostWins ==
    /\ \A c \in ColorIDs : styleColors[c] = Innermost(c, "colors", DefaultColor)
    /\ \A v \in VarIDs : styleVars[v] = Innermost(v, "vars", 0)

\* A button is built inside a StyleSetter nested in another one, under a
\* theme, all three defining Button: it is drawn with the innermost value.
C4_Witness ==
    /\ pc = "walk"
    /\ Len(callStack) = 3
    /\ callStack[1].colors = DarkTheme.colors
    /\ callStack[2].kind = "Style"
    /\ "Button" \in DOMAIN callStack[2].colors
    /\ callStack[2].colors["Button"] = "RED"
    /\ callStack[3].kind = "Style"
    /\ "Button" \in DOMAIN callStack[3].colors
    /\ callStack[3].colors["Button"] = "YELLOW"
    /\ drawn = [item |-> "Button", color |-> "YELLOW"]

----------------------------------------------------------------------------
(* The retained state store *)

CounterKeys == {k \in DOMAIN stateMap : stateMap[k].kind = "counter"}

TimerKeys == {k \in DOMAIN stateMap : stateMap[k].kind = "timer"}

\* The log after one more message, as the bounded log keeps it.
Logged(r, message) ==
    LET ms == Append(r.messages, message)
    IN IF Len(ms) > r.maxMessages THEN SubSeq(ms, 2, Len(ms)) ELSE ms

\* C5: a getState call on a key that holds a record returns that record, not a
\* fresh one: a Build without a press, a GetValue and a status Build leave the
\* store as it was, a Build with a press and a SetValue start from the stored
\* value whatever Min the builder declares, a timer keeps flags and anchor,
\* the log grows by the one message.  Only a call on an absent key creates,
\* with the caller's default.
C5_StoreIdempotence ==
    [][/\ \A c \in StoreCounters, minus \in BOOLEAN, plus \in BOOLEAN :
            BuildCounter(c, TRUE, minus, plus) =>
                IF c.id \in DOMAIN stateMap
                THEN /\ lastBuild'.before = stateMap[c.id].value
                     /\ (~minus /\ ~plus) => stateMap' = stateMap
                ELSE lastBuild'.before = c.minValue
       /\ \A c \in StoreCounters :
            (CounterGetValue(c) /\ c.id \in DOMAIN stateMap) =>
                /\ stateMap' = stateMap
                /\ lastBuild'.after = stateMap[c.id].value
       /\ \A c \in StoreCounters, v \in 0..MaxCounter :
            (CounterSetValue(c, v) /\ c.id \in DOMAIN stateMap) =>
                lastBuild'.before = stateMap[c.id].value
       /\ \A t \in HostTimers :
            (BuildTimer(t, TRUE, FALSE, FALSE, FALSE) /\ t.id \in DOMAIN stateMap) =>
                /\ stateMap'[t.id].isRunning = stateMap[t.id].isRunning
                /\ stateMap'[t.id].isPaused = stateMap[t.id].isPaused
                /\ stateMap'[t.id].startTime = stateMap[t.id].startTime
       /\ (BuildStatusDisplay(StatusDisplay) /\ StatusDisplay.id \in DOMAIN stateMap) =>
            stateMap' = stateMap
       /\ \A m \in {"clicked"} :
            (HostLogStatus(m) /\ globalStatus # Nil
                /\ StatusDisplay.id \in DOMAIN stateMap) =>
                stateMap'[StatusDisplay.id].messages =
                    Logged(stateMap[StatusDisplay.id], m)]_vars

\* A builder that declares Min(1) has read a record that an earlier builder
\* created with Min(0): the value it found is 0, below its own minimum.
C5_Witness ==
    /\ lastBuild.kind = "Build"
    /\ lastBuild.existed
    /\ lastBuild.min = 1
    /\ lastBuild.before = 0
    /\ lastBuild.after = 0

C7_CounterInRange ==
    (lastBuild.kind # "none" /\ lastBuild.min <= lastBuild.max) =>
        /\ lastBuild.min <= lastBuild.after
        /\ lastBuild.after <= lastBuild.max

\* C8: a Build in which only "-" is pressed while the value is at the minimum,
\* or only "+" while it is at the maximum, leaves the value and calls nothing.
C8_NoOpAtBounds ==
    lastBuild.kind = "Build" =>
        /\ (lastBuild.minus /\ ~lastBuild.plus /\ lastBuild.before = lastBuild.min) =>
                (lastBuild.after = lastBuild.before /\ lastBuild.fired = <<>>)
        /\ (lastBuild.plus /\ ~lastBuild.minus /\ lastBuild.before = lastBuild.max) =>
                (lastBuild.after = lastBuild.before /\ lastBuild.fired = <<>>)
        /\ stateMap[lastBuild.id].value = lastBuild.after

\* "-" was pressed on a counter with a callback whose record existed with
\* the value at the minimum: nothing changed, nothing was called.
C8_Witness ==
    /\ lastBuild.kind = "Build"
    /\ lastBuild.existed
    /\ lastBuild.onChange
    /\ lastBuild.minus
    /\ ~lastBuild.plus
    /\ lastBuild.before = lastBuild.min
    /\ lastBuild.after = lastBuild.min
    /\ lastBuild.fired = <<>>

\* C9: a Build in which only "+" is pressed while the value is below the
\* maximum raises it by 1, one in which only "-" is pressed while it is above
\* the minimum lowers it by 1; a registered callback is called once, with the
\* new value.  Every counter record's step is 1.
C9_InRangeStep ==
    /\ \A k \in CounterKeys : stateMap[k].step = 1
    /\ lastBuild.kind = "Build" =>
        /\ (lastBuild.plus /\ ~lastBuild.minus /\ lastBuild.before < lastBuild.max) =>
            /\ lastBuild.after = lastBuild.before + 1
            /\ stateMap[lastBuild.id].value = lastBuild.before + 1
            /\ lastBuild.onChange => lastBuild.fired = <<lastBuild.before + 1>>
        /\ (lastBuild.minus /\ ~lastBuild.plus /\ lastBuild.before > lastBuild.min) =>
            /\ lastBuild.after = lastBuild.before - 1
            /\ stateMap[lastBuild.id].value = lastBuild.before - 1
            /\ lastBuild.onChange => lastBuild.fired = <<lastBuild.before - 1>>

\* The second "+" press in a row on a counter with Min(0), Max(2) and a
\* callback: 1 became 2 and the callback was called once, with 2.
C9_Witness ==
    /\ lastBuild.kind = "Build"
    /\ lastBuild.existed
    /\ lastBuild.onChange
    /\ lastBuild.plus
    /\ ~lastBuild.minus
    /\ lastBuild.min = 0
    /\ lastBuild.max = 2
    /\ lastBuild.before = 1
    /\ lastBuild.after = 2
    /\ lastBuild.fired = <<2>>

\* C10: the elapsed time every Build of a timer leaves is the time the timer
\* has spent running since it started from zero: the time since Start while
\* it runs, the value of the pausing frame while it is paused, that value
\* plus the time since Resume after it.  Paused time is not in it.
C10_PauseResumeElapsed ==
    [][\A t \in HostTimers, open \in BOOLEAN, primary \in BOOLEAN,
          stop \in BOOLEAN, reset \in BOOLEAN :
            BuildTimer(t, open, primary, stop, reset) =>
                stateMap'[t.id].elapsedTime = timerGhost'[t.id].running]_vars

\* A timer that ran, was paused for a while and runs again has just been
\* built: its elapsed time is the running time, short of the time since Start.
C10_Witness ==
    \E k \in TimerKeys :
        /\ stateMap[k].isRunning
        /\ ~stateMap[k].isPaused
        /\ timerGhost[k].paused >= 1
        /\ timerGhost[k].running >= 2
        /\ stateMap[k].elapsedTime = timerGhost[k].running
        /\ stateMap[k].elapsedTime = time - stateMap[k].startTime

----------------------------------------------------------------------------
(* Timers *)

\* The state of the timer state machine a record is in.
TimerStateOf(r) ==
    IF ~r.isRunning THEN "Stopped" ELSE IF r.isPaused THEN "Paused" ELSE "Running"

\* C11: a Build changes the state of a timer only from Stopped to Running,
\* Running to Paused or Paused to Running with the first button pressed, or
\* from Running or Paused to Stopped with Stop pressed; a Build with no
\* button pressed, or with Reset alone, leaves the state.
C11_TimerStateMachine ==
    lastTimer.kind = "Build" =>
        LET b == TimerStateOf(lastTimer.before)
            a == TimerStateOf(lastTimer.after)
        IN /\ a # b =>
                \/ lastTimer.primary /\ <<b, a>> \in {<<"Stopped", "Running">>,
                                                     <<"Running", "Paused">>,
                                                     <<"Paused", "Running">>}
                \/ lastTimer.stop /\ b \in {"Running", "Paused"} /\ a = "Stopped"
           /\ (~lastTimer.primary /\ ~lastTimer.stop) => a = b
           /\ a = TimerStateOf(stateMap[lastTimer.id])

\* A Build with Reset alone has left a paused timer paused.
C11_Witness ==
    /\ lastTimer.kind = "Build"
    /\ lastTimer.reset
    /\ ~lastTimer.primary
    /\ ~lastTimer.stop
    /\ TimerStateOf(lastTimer.before) = "Paused"
    /\ TimerStateOf(lastTimer.after) = "Paused"

\* C12: a Build with Stop pressed leaves the elapsed time 0 and both flags
\* clear, whatever the state was; a timer that is not running has elapsed
\* time 0, so the Start that follows anchors at the current time and counts
\* from 0.
C12_TimerStop ==
    /\ \A k \in TimerKeys : ~stateMap[k].isRunning => stateMap[k].elapsedTime = 0
    /\ lastTimer.kind = "Build" =>
        /\ lastTimer.stop =>
            /\ lastTimer.after.elapsedTime = 0
            /\ ~lastTimer.after.isRunning
            /\ ~lastTimer.after.isPaused
        /\ (lastTimer.primary /\ ~lastTimer.stop /\ ~lastTimer.before.isRunning) =>
            /\ lastTimer.after.isRunning
            /\ ~lastTimer.after.isPaused
            /\ lastTimer.after.startTime = lastTimer.at
            /\ lastTimer.after.elapsedTime = 0

\* Stop was pressed on a paused timer that had run for a while.
C12_Witness ==
    /\ lastTimer.kind = "Build"
    /\ lastTimer.stop
    /\ ~lastTimer.primary
    /\ ~lastTimer.reset
    /\ lastTimer.before.isPaused
    /\ lastTimer.before.elapsedTime >= 1
    /\ stateMap[lastTimer.id].elapsedTime = 0
    /\ ~stateMap[lastTimer.id].isRunning

\* C13: a Build with Reset pressed leaves the anchor at the current time and
\* the elapsed time 0, and with Reset alone the flags as they were.  The
\* Build after it reports the time since the Reset if the timer runs and 0
\* if it is paused, and a paused timer reports its stored value in every
\* Build.
C13_TimerReset ==
    [][\A t \in HostTimers, open \in BOOLEAN, primary \in BOOLEAN,
          stop \in BOOLEAN, reset \in BOOLEAN :
            BuildTimer(t, open, primary, stop, reset) =>
                /\ (open /\ reset) =>
                    /\ stateMap'[t.id].startTime = time
                    /\ stateMap'[t.id].elapsedTime = 0
                    /\ (~primary /\ ~stop) =>
                        /\ stateMap'[t.id].isRunning = lastTimer'.before.isRunning
                        /\ stateMap'[t.id].isPaused = lastTimer'.before.isPaused
                /\ (lastTimer.kind = "Build" /\ lastTimer.id = t.id /\ lastTimer.reset) =>
                    lastTimer'.result =
                        IF TimerStateOf(lastTimer.after) = "Running"
                        THEN time - lastTimer.at ELSE 0
                /\ TimerStateOf(lastTimer'.before) = "Paused" =>
                    lastTimer'.result = lastTimer'.before.elapsedTime]_vars

\* Reset alone was pressed on a running timer that had been reporting a
\* positive time: it runs on, anchored at the time of the Reset.
C13_Witness ==
    /\ lastTimer.kind = "Build"
    /\ lastTimer.reset
    /\ ~lastTimer.primary
    /\ ~lastTimer.stop
    /\ TimerStateOf(lastTimer.before) = "Running"
    /\ lastTimer.result >= 1
    /\ TimerStateOf(stateMap[lastTimer.id]) = "Running"
    /\ stateMap[lastTimer.id].startTime = lastTimer.at
    /\ stateMap[lastTimer.id].elapsedTime = 0

\* C14: the elapsed time GetElapsed returns for a running timer is the
\* current time minus the anchor.
C14_ElapsedDerived ==
    (lastTimer.kind = "GetElapsed" /\ TimerStateOf(lastTimer.before) = "Running") =>
        lastTimer.result = lastTimer.at - lastTimer.before.startTime

----------------------------------------------------------------------------
(* The message log *)

\* The record of the status display, or an empty log while there is none.
StatusRecord ==
    IF StatusDisplay.id \in DOMAIN stateMap
    THEN stateMap[StatusDisplay.id]
    ELSE [kind |-> "status", messages |-> <<>>, timestamps |-> <<>>,
          maxMessages |-> MaxMessages]

\* C15: the log holds at most maxMessages entries, and they are the last
\* maxMessages messages AddMessage was called with, in the order of the calls.
C15_LogFifoBound ==
    LET r == StatusRecord
        n == Len(sent)
    IN /\ Len(r.messages) <= r.maxMessages
       /\ Len(r.timestamps) = Len(r.messages)
       /\ r.messages = IF n > r.maxMessages
                       THEN SubSeq(sent, n - r.maxMessages + 1, n)
                       ELSE sent

\* One message more than the log holds has been added: the first one, "A",
\* is gone and the others are stored in the order they were added.
C15_Witness ==
    /\ Len(sent) = MaxMessages + 1
    /\ sent[1] = "A"
    /\ Len(StatusRecord.messages) = MaxMessages
    /\ StatusRecord.messages = Tail(sent)
    /\ StatusRecord.messages[1] = "B"

\* C16: a Build of the status display leaves the store as it is and draws,
\* newest first, the stored entries whose age is below 10, and only those.
C16_RenderIsFilter ==
    [][(BuildStatusDisplay(StatusDisplay) /\ StatusDisplay.id \in DOMAIN stateMap) =>
            LET r == stateMap[StatusDisplay.id]
                n == Len(r.messages)
                newestFirst == [i \in 1..n |->
                                  [age |-> time - r.timestamps[n + 1 - i],
                                   message |-> r.messages[n + 1 - i]]]
                Young(line) == line.age < 10
            IN /\ stateMap' = stateMap
               /\ shown' = SelectSeq(newestFirst, Young)]_vars

\* The status display has just been built with an entry of age 10 in the
\* store: a younger entry was drawn, that one was not, and it is still stored.
C16_Witness ==
    /\ pc = "walk"
    /\ Len(shown) >= 1
    /\ Len(shown) < Len(StatusRecord.messages)
    /\ shown[1].message = StatusRecord.messages[Len(StatusRecord.messages)]
    /\ shown[1].age = time - StatusRecord.timestamps[Len(StatusRecord.timestamps)]
    /\ time - StatusRecord.timestamps[1] = 10

----------------------------------------------------------------------------
(* Identity of the stateful widgets *)

\* C17: the store is the same at the begin of a frame as at the end of the
\* frame before it, and the Build of a fresh descriptor with the label of a
\* widget that has a record resolves to that record: the host's one counter
\* and one timer have one record each, a counter Build starts from the
\* stored value and a timer Build from the stored flags and anchor.
C17_CrossFrameIdentity ==
    [][/\ (pc' # pc \/ time' # time) => stateMap' = stateMap
       /\ \A c \in StoreCounters, minus \in BOOLEAN, plus \in BOOLEAN :
            (BuildCounter(c, TRUE, minus, plus) /\ CounterKeys # {}) =>
                /\ CounterKeys = {Counter(c.label).id}
                /\ CounterKeys' = CounterKeys
                /\ lastBuild'.before = stateMap[Counter(c.label).id].value
       /\ \A t \in HostTimers, primary \in BOOLEAN, stop \in BOOLEAN,
             reset \in BOOLEAN :
            (BuildTimer(t, TRUE, primary, stop, reset) /\ TimerKeys # {}) =>
                /\ TimerKeys = {Timer(t.label).id}
                /\ TimerKeys' = TimerKeys
                /\ lastTimer'.before = stateMap[Timer(t.label).id]]_vars

\* A third frame has found the counter at the 1 the frames before had left
\* and raised it to 2, and a frame has found the timer running on an anchor
\* that an earlier frame had set.
C17_Witness ==
    /\ lastBuild.kind = "Build"
    /\ lastBuild.existed
    /\ lastBuild.at >= 1
    /\ lastBuild.before = 1
    /\ lastBuild.after = 2
    /\ lastTimer.kind = "Build"
    /\ lastTimer.before.isRunning
    /\ lastTimer.before.startTime < lastTimer.at

\* C18: two occurrences of a counter in the host's tree, whatever their
\* labels, do not share a record: a Build of the first, with or without a
\* press, leaves the record the second reads as it was.
C18_NoCollision ==
    [][\A l1 \in Labels, l2 \in Labels, minus \in BOOLEAN, plus \in BOOLEAN :
        LET first == OnChange(Max(Min(Counter(l1), 0), MaxCounter))
            second == OnChange(Max(Min(Counter(l2), 0), MaxCounter))
        IN (BuildCounter(first, TRUE, minus, plus) /\ second.id \in DOMAIN stateMap) =>
                /\ first.id # second.id
                /\ stateMap'[second.id] = stateMap[second.id]]_vars

----------------------------------------------------------------------------
(* The order of the walk *)

RECURSIVE DepthFirst(_, _), DepthFirstFrom(_, _, _)

\* The depth-first, left-to-right sequence of the widgets of the tree at
\* and below path; with rows set, without what is below a Row whose table
\* the backend did not open.  A nil child is no widget.
DepthFirst(path, rows) ==
    IF path \notin DOMAIN tree \/ tree[path].kind = Nil THEN <<>>
    ELSE <<path>> \o (IF rows /\ ~tree[path].open THEN <<>>
                      ELSE DepthFirstFrom(path, 1, rows))

\* The same for the children of path from the i-th on.
DepthFirstFrom(path, i, rows) ==
    IF path \o <<i>> \notin DOMAIN tree THEN <<>>
    ELSE DepthFirst(path \o <<i>>, rows) \o DepthFirstFrom(path, i + 1, rows)

IsPrefix(p, q) == Len(p) <= Len(q) /\ p = SubSeq(q, 1, Len(p))

\* C19 as stated: when the Build of the tree has returned, the Builds called
\* are the widgets of the tree in depth-first, left-to-right order, each
\* once.
C19_WalkOrder ==
    (pc # "aborted" /\ walkStack = <<>>) => visited = DepthFirst(<<>>, FALSE)

\* C19, amended: the Builds called are, in order, the widgets of the tree in
\* depth-first, left-to-right order without those below a Row whose table
\* the backend did not open, each once: all of them when the Build of the
\* tree has returned, the first of them when a Build has panicked.
C19_WalkOrderOpenRows ==
    /\ (pc # "aborted" /\ walkStack = <<>>) => visited = DepthFirst(<<>>, TRUE)
    /\ IsPrefix(visited, DepthFirst(<<>>, TRUE))

\* The Build of a tree has returned in which a container two levels down
\* had a nil child before a label and a sibling after it.
C19_Witness ==
    /\ pc = "walk"
    /\ walkStack = <<>>
    /\ <<1, 1>> \in DOMAIN tree
    /\ tree[<<1, 1>>].kind = Nil
    /\ visited = << <<>>, <<1>>, <<1, 2>>, <<2>> >>

----------------------------------------------------------------------------
(* Change detection *)

\* C20: a Build of a checkbox, slider, colour picker or text input calls
\* onChange only if the value after the backend call differs from the value
\* taken before it, never when they are equal, and at most once.
C20_ChangeDetection ==
    lastInput.kind # "none" =>
        /\ lastInput.fired <= 1
        /\ lastInput.fired = 1 => (lastInput.new # lastInput.old /\ lastInput.onChange)
        /\ lastInput.new = lastInput.old => lastInput.fired = 0
        /\ backing[lastInput.kind] = lastInput.new

\* The backend reported an edit of a text input with a callback and left
\* the text as it was: the callback was not called.
C20_Witness ==
    /\ lastInput.kind = "InputText"
    /\ lastInput.onChange
    /\ lastInput.returned
    /\ lastInput.new = lastInput.old
    /\ lastInput.fired = 0

----------------------------------------------------------------------------
(* Failures *)

\* C21: the Build of a checkbox whose backing value is nil ends the program
\* at that call: no draw call has reached the backend for it, no variable
\* of the host is written and no onChange is called, and no step follows.
C21_NilCheckboxFatal ==
    [][/\ pc # "aborted"
       /\ BuildCheckboxNil =>
            /\ pc' = "aborted"
            /\ drawn' = drawn
            /\ backing' = backing
            /\ lastInput' = lastInput]_vars

\* The program has ended in a frame in which a checkbox with a callback had
\* been built on a variable and had fired: nothing has been drawn, and the
\* record of that Build is the last one.
C21_Witness ==
    /\ pc = "aborted"
    /\ drawn.item = "none"
    /\ lastInput.kind = "Checkbox"
    /\ lastInput.fired = 1
    /\ backing.Checkbox = lastInput.new

----------------------------------------------------------------------------
(* The accessors of a counter *)

\* The builders an accessor call with the record b may have been made on.
CalledOn(b) ==
    {h \in HostCounters : /\ h.id = b.id
                          /\ h.minValue = b.min
                          /\ h.maxValue = b.max
                          /\ h.onChange = b.onChange}

\* C22: SetValue(v) stores v if v lies between the Min and the Max of the
\* calling builder and leaves the stored value otherwise, without an error;
\* GetValue returns the stored value; neither calls onChange.
C22_SetValue ==
    [][/\ lastBuild'.kind = "SetValue" =>
            \A c \in CalledOn(lastBuild'), v \in 0..MaxCounter :
                CounterSetValue(c, v) =>
                    LET old == IF c.id \in DOMAIN stateMap
                               THEN stateMap[c.id].value ELSE c.minValue
                    IN /\ pc' = pc
                       /\ stateMap'[c.id].value =
                            IF c.minValue <= v /\ v <= c.maxValue THEN v ELSE old
                       /\ lastBuild'.fired = <<>>
       /\ lastBuild'.kind = "GetValue" =>
            \A c \in CalledOn(lastBuild') :
                (CounterGetValue(c) /\ c.id \in DOMAIN stateMap) =>
                    /\ lastBuild'.after = stateMap[c.id].value
                    /\ lastBuild'.fired = <<>>]_vars

\* SetValue(2) on a counter with Min(0), Max(2) and a callback has taken
\* the stored 0 to 2 and called nothing.
C22_Witness ==
    /\ lastBuild.kind = "SetValue"
    /\ lastBuild.existed
    /\ lastBuild.onChange
    /\ lastBuild.min = 0
    /\ lastBuild.max = 2
    /\ lastBuild.before = 0
    /\ lastBuild.after = 2
    /\ lastBuild.fired = <<>>
    /\ stateMap[lastBuild.id].value = 2

----------------------------------------------------------------------------
(* Logging *)

\* The newest message of the log of the status display, if there is one.
LastLogged ==
    IF StatusRecord.messages = <<>> THEN Nil
    ELSE StatusRecord.messages[Len(StatusRecord.messages)]

\* C23: every LogStatus(m) leaves m as the newest message of the log of the
\* status display: the call of a host's callback, and the call SetGlobalTheme
\* makes when main sets the theme before the first frame.
C23_LogStatusAppends ==
    [][/\ \A m \in {"clicked"} : HostLogStatus(m) => LastLogged' = m
       /\ MainSetGlobalTheme =>
            LastLogged' = "Theme set to: " \o currentThemeObject'.name]_vars

----------------------------------------------------------------------------
(* Theme switches *)

\* C24: when a frame ends, Run pops as many colours and variables as it
\* pushed when the frame began -- the entries of the theme that was current
\* then, none if there was none -- whatever theme is current now, and both
\* stacks are empty again.
C24_PopCountFromPushCount ==
    [][(pc = "walk" /\ pc' = "idle") =>
            LET run == callStack[1]
            IN /\ PopCounts(run).colors = Cardinality(DOMAIN run.colors)
               /\ PopCounts(run).vars = Cardinality(DOMAIN run.vars)
               /\ Len(colorStack) - Len(colorStack') = Cardinality(DOMAIN run.colors)
               /\ Len(varStack) - Len(varStack') = Cardinality(DOMAIN run.vars)
               /\ colorStack' = <<>>
               /\ varStack' = <<>>]_vars

\* A frame has ended that drew its button in the default colour, so began
\* with no theme and pushed nothing, and in which a callback set a theme.
C24_Witness ==
    /\ pc = "idle"
    /\ drawn = [item |-> "Button", color |-> DefaultColor]
    /\ currentThemeObject.name # Nil
    /\ colorStack = <<>>
    /\ varStack = <<>>
    /\ styleColors = [c \in ColorIDs |-> DefaultColor]

\* The value of a colour slot under the theme a frame began with.
ThemeColor(run, slot) ==
    IF slot \in DOMAIN run.colors THEN run.colors[slot] ELSE DefaultColor

\* No StyleSetter.Build in progress sets the colour slot.
NoLocalColor(slot) == \A i \in StyleFrames : slot \notin DOMAIN callStack[i].colors

\* C25: a SetGlobalTheme during a frame changes no style value and no stack,
\* and the widgets built in the frame outside local overrides are drawn with
\* the values of the theme the frame began with; the next frame begins by
\* pushing the theme that is current then.
C25_ThemeSwitchNextFrame ==
    [][/\ (pc = "walk" /\ pc' = "walk" /\ currentThemeObject' # currentThemeObject) =>
            /\ styleColors' = styleColors
            /\ styleVars' = styleVars
            /\ colorStack' = colorStack
            /\ varStack' = varStack
            /\ callStack' = callStack
       /\ (BuildButton /\ NoLocalColor("Button")) =>
            drawn'.color = ThemeColor(callStack[1], "Button")
       /\ (BuildLabel /\ NoLocalColor("Text")) =>
            drawn'.color = ThemeColor(callStack[1], "Text")
       /\ (pc = "idle" /\ pc' = "walk") =>
            /\ callStack'[1].colors = currentThemeObject.colors
            /\ callStack'[1].vars = currentThemeObject.vars
            /\ \A c \in DOMAIN currentThemeObject.colors :
                    styleColors'[c] = currentThemeObject.colors[c]
            /\ \A v \in DOMAIN currentThemeObject.vars :
                    styleVars'[v] = currentThemeObject.vars[v]]_vars

\* In a frame that began with the Dark theme a callback has set the Light
\* theme; the frame still runs on the Dark values.
C25_Witness ==
    /\ pc = "walk"
    /\ Len(callStack) = 1
    /\ callStack[1].colors = DarkTheme.colors
    /\ currentThemeObject = LightTheme
    /\ drawn = [item |-> "Label", color |-> DarkTheme.colors["Text"]]
    /\ styleColors = DarkTheme.colors

----------------------------------------------------------------------------
(* Keys of the state store *)

\* The kind of record the store holds under key k, Nil if none.
KindAt(st, k) == IF k \in DOMAIN st THEN st[k].kind ELSE Nil

\* C26: the key of a counter, the key of a timer and the key of the status
\* display differ for all labels, and no getState call replaces a record of
\* another kind: a record never changes its kind, and what is stored under
\* a counter's, a timer's or the display's key is of that kind.
C26_KeysDisjoint ==
    [][/\ \A a \in KeyLabels, b \in KeyLabels :
            /\ Counter(a).id # Timer(b).id
            /\ Counter(a).id # StatusDisplay.id
            /\ Timer(b).id # StatusDisplay.id
       /\ \A k \in DOMAIN stateMap : KindAt(stateMap', k) = stateMap[k].kind
       /\ \A l \in KeyLabels :
            /\ KindAt(stateMap', Counter(l).id) \in {Nil, "counter"}
            /\ KindAt(stateMap', Timer(l).id) \in {Nil, "timer"}
       /\ KindAt(stateMap', StatusDisplay.id) \in {Nil, "status"}]_vars

\* The store holds a counter that has counted and a started timer for every
\* label, and the display's log with a message in it.
C26_Witness ==
    /\ \A l \in KeyLabels :
            /\ KindAt(stateMap, Counter(l).id) = "counter"
            /\ stateMap[Counter(l).id].value = 1
            /\ KindAt(stateMap, Timer(l).id) = "timer"
            /\ stateMap[Timer(l).id].isRunning
    /\ KindAt(stateMap, StatusDisplay.id) = "status"
    /\ stateMap[StatusDisplay.id].messages # <<>>
    /\ Cardinality(DOMAIN stateMap) = 2 * Cardinality(KeyLabels) + 1

----------------------------------------------------------------------------
(* Invariants of the timer record *)

\* C27: no timer record is paused without running, whatever buttons the
\* Builds before pressed.
C27_PausedImpliesRunning ==
    /\ \A k \in TimerKeys : stateMap[k].isPaused => stateMap[k].isRunning
    /\ lastTimer.kind = "Build" => (lastTimer.after.isPaused => lastTimer.after.isRunning)

\* One Build has paused a running timer with its first button and stopped it
\* with Stop: it is neither running nor paused.
C27_Witness ==
    /\ lastTimer.kind = "Build"
    /\ lastTimer.primary
    /\ lastTimer.stop
    /\ TimerStateOf(lastTimer.before) = "Running"
    /\ ~stateMap[lastTimer.id].isRunning
    /\ ~stateMap[lastTimer.id].isPaused

\* C28: a timer that is not running has elapsed time 0, and no timer has a
\* negative elapsed time or reports one, the clock never going back.
C28_StoppedReadsZero ==
    /\ \A k \in TimerKeys :
            /\ stateMap[k].isRunning = FALSE => stateMap[k].elapsedTime = 0
            /\ stateMap[k].elapsedTime >= 0
            /\ stateMap[k].startTime <= time
    /\ lastTimer.kind \in {"Build", "GetElapsed"} => lastTimer.result >= 0

\* A timer that was stopped some time after its anchor has been built again
\* with no button pressed: it reads 0.
C28_Witness ==
    /\ lastTimer.kind = "Build"
    /\ ~lastTimer.primary
    /\ ~lastTimer.stop
    /\ ~lastTimer.reset
    /\ ~lastTimer.before.isRunning
    /\ lastTimer.at >= lastTimer.before.startTime + 2
    /\ lastTimer.result = 0
    /\ stateMap[lastTimer.id].elapsedTime = 0

----------------------------------------------------------------------------
(* Messages and their timestamps *)

\* The entries of a log: each message with the timestamp at its index.
Pairs(r) == [i \in 1..Len(r.messages) |-> <<r.messages[i], r.timestamps[i]>>]

\* C29: the log has as many timestamps as messages after every step; an
\* AddMessage appends the message paired with the current time and a full
\* log gives up its oldest pair; no other step, a Build of the display
\* included, changes a pair.  So the timestamp at an index is the time its
\* message was added, and is not in the future.
C29_LogPairing ==
    [][/\ Len(StatusRecord'.timestamps) = Len(StatusRecord'.messages)
       /\ (LogLogStatus /\ globalStatus # Nil) =>
            LET all == Append(Pairs(StatusRecord), <<Messages[Len(sent) + 1], time>>)
            IN Pairs(StatusRecord') =
                    IF Len(all) > StatusRecord.maxMessages THEN Tail(all) ELSE all
       /\ ~LogLogStatus => Pairs(StatusRecord') = Pairs(StatusRecord)
       /\ \A i \in DOMAIN StatusRecord'.timestamps : StatusRecord'.timestamps[i] <= time']_vars

\* The log has given up its first message, which was added at time 0; the
\* messages it holds were added at different later times and the display has
\* been built from them.
C29_Witness ==
    /\ Len(sent) = MaxMessages + 1
    /\ Len(StatusRecord.messages) = MaxMessages
    /\ Len(StatusRecord.timestamps) = MaxMessages
    /\ StatusRecord.timestamps[1] >= 1
    /\ StatusRecord.timestamps[1] < StatusRecord.timestamps[MaxMessages]
    /\ Len(shown) = MaxMessages
    /\ shown[1].message = sent[Len(sent)]

----------------------------------------------------------------------------
(* Nil children *)

\* C30: every container skips a nil child: the turn of the range loop of a
\* Layout, Column, Row, SingleWindow or StyleSetter that finds a nil child
\* calls no Build, fails nothing and moves on to the next child.
C30_NilChildrenSkipped ==
    [][(/\ pc = "walk"
        /\ walkStack # <<>>
        /\ WalkTop.next <= Len(WalkTop.children)
        /\ WalkTop.children[ChildAt(WalkTop)] = Nil
        /\ WalkChild) =>
            /\ pc' = "walk"
            /\ walkStack' = Advance(walkStack)
            /\ visited' = visited]_vars

====
